---- MODULE Spec2Model ----
(***************************************************************************)
(* Symmetric meshes of capytaine (capytaine/symmetries.py): the three      *)
(* composite meshes ReflectionSymmetry, TranslationalSymmetry and          *)
(* AxialSymmetry, the factory AxialSymmetry.from_profile, the routine      *)
(* TranslationalSymmetry.join, and the decorator use_symmetries, whose     *)
(* build_matrices_with_symmetries assembles influence matrices by a        *)
(* recursive dispatch on the kinds of the two meshes.                      *)
(*                                                                         *)
(* Mesh objects live on a heap (a sequence; an object's identity is its    *)
(* index).  The geometry of a plain mesh is a sequence of rigid parts,     *)
(* each a shape placed by a pose of the horizontal Euclidean group:        *)
(* a point x of the shape sits at  R(th) F^flip x + c,  R(th) the rotation *)
(* about the vertical axis by th/TurnUnits turns, F the reflection         *)
(* y -> -y.                                                                *)
(***************************************************************************)
EXTENDS Integers, Sequences, FiniteSets, TLC

\* ------------------------------------------------------------------ bounds
MaxHeap == 9        \* objects a run may allocate
MaxCtor == 2        \* constructor calls of a run
MaxRep == 2         \* largest nb_repetitions tried
MaxNphi == 5        \* largest nphi tried
MaxJoin == 1        \* join calls of a run

\* ------------------------------------------------------------ arithmetic
Abs(x) == IF x < 0 THEN -x ELSE x

Min(a, b) == IF a <= b THEN a ELSE b

RECURSIVE Fact(_)
Fact(n) == IF n <= 1 THEN 1 ELSE n * Fact(n - 1)

\* Angles are counted in units of 1/TurnUnits of a turn: every angle
\* 2*i*pi/n the model forms and every quarter turn is a whole number.
TurnUnits == 4 * Fact(MaxNphi + MaxRep + 1)

Quarter == TurnUnits \div 4

Zero3 == <<0, 0, 0>>

VAdd(u, v) == <<u[1] + v[1], u[2] + v[2], u[3] + v[3]>>

VSub(u, v) == <<u[1] - v[1], u[2] - v[2], u[3] - v[3]>>

VScale(k, v) == <<k * v[1], k * v[2], k * v[3]>>

Horizontal(v) == <<v[1], v[2], 0>>

\* R(a) v for a vector v: exact on the integer lattice when a is a whole
\* number of quarter turns, or when v has no horizontal component.
RotVec(v, a) ==
    LET q == (a % TurnUnits) \div Quarter
    IN  IF Horizontal(v) = Zero3 THEN v
        ELSE CASE q = 0 -> v
               [] q = 1 -> <<-v[2], v[1], v[3]>>
               [] q = 2 -> <<-v[1], -v[2], v[3]>>
               [] OTHER -> <<v[2], -v[1], v[3]>>

RotExact(v, a) == Horizontal(v) = Zero3 \/ a % Quarter = 0

\* ------------------------------------------- the mesh primitive (meshmagick)
\* translate(vector) on one part.
PartTranslate(p, v) == [p EXCEPT !.c = VAdd(p.c, v)]

\* rotate_z(angle) on one part: a rotation about the vertical axis through
\* the origin.
PartRotateZ(p, a) ==
    [p EXCEPT !.c = RotVec(p.c, a), !.th = (p.th + a) % TurnUnits]

\* mirror(plane) on one part.  plane = [normal, c] is the set of points x
\* with normal . x = c; the model's planes have a unit normal along an axis.
PartMirror(p, plane) ==
    IF plane.normal[1] # 0
    THEN [p EXCEPT !.c = <<2 * plane.c - p.c[1], p.c[2], p.c[3]>>,
                   !.th = (2 * Quarter - p.th) % TurnUnits,
                   !.flip = ~p.flip]
    ELSE [p EXCEPT !.c = <<p.c[1], 2 * plane.c - p.c[2], p.c[3]>>,
                   !.th = (TurnUnits - p.th) % TurnUnits,
                   !.flip = ~p.flip]

\* ---------------------------------------------------------------- the heap
Tok(tag, i) == [tag |-> tag, i |-> i]

None == <<Tok("None", 0)>>

NoPlane == [normal |-> Zero3, c |-> 0]

\* A plain mesh (meshmagick Mesh): a name and its geometry.
PlainMesh(name, parts) ==
    [kind |-> "Mesh", name |-> name, parts |-> parts, submeshes |-> <<>>,
     plane |-> NoPlane, translation |-> Zero3, axis |-> Zero3]

\* CollectionOfMeshes.__init__(self, meshes): the sub-meshes are kept as
\* given, in order, by reference.
CollectionOfMeshes(kind, meshes, name, plane, translation, axis) ==
    [kind |-> kind, name |-> name, parts |-> <<>>, submeshes |-> meshes,
     plane |-> plane, translation |-> translation, axis |-> axis]

\* CollectionOfMeshes.format_name(self, options_string)
FormatName(name) == <<Tok("collection_of_", 0)>> \o name

nb_submeshes(h, id) == Len(h[id].submeshes)

\* The objects of the tree rooted at id.
RECURSIVE Reach(_, _)
Reach(h, id) ==
    {id} \cup UNION {Reach(h, h[id].submeshes[k]) : k \in DOMAIN h[id].submeshes}

Rank(S, x) == Cardinality({y \in S : y <= x})

MapSeq(s, F(_)) == IF s = <<>> THEN <<>> ELSE [k \in 1..Len(s) |-> F(s[k])]

\* mesh.copy(): a deep copy, every object of the tree is allocated anew.
DeepCopy(h, id) ==
    LET R == Reach(h, id)
        new(x) == Len(h) + Rank(R, x)
        obj(k) == LET old == CHOOSE x \in R : Rank(R, x) = k
                  IN  [h[old] EXCEPT !.submeshes = MapSeq(h[old].submeshes, new)]
    IN  [heap |-> h \o [k \in 1..Cardinality(R) |-> obj(k)], id |-> new(id)]

\* mirror, translate and rotate_z of a mesh or of a collection move the
\* geometry of every plain mesh of the tree, in place.
ApplyLeaves(h, id, F(_)) ==
    LET R == Reach(h, id)
    IN  [k \in 1..Len(h) |->
            IF k \in R /\ h[k].kind = "Mesh"
            THEN [h[k] EXCEPT !.parts = MapSeq(h[k].parts, F)]
            ELSE h[k]]

\* The geometry of a tree, panel blocks in sub-mesh order.
RECURSIVE Flatten(_, _)
Flatten(h, id) ==
    IF h[id].kind = "Mesh" THEN h[id].parts
    ELSE LET RECURSIVE cat(_)
             cat(k) == IF k > Len(h[id].submeshes) THEN <<>>
                       ELSE Flatten(h, h[id].submeshes[k]) \o cat(k + 1)
         IN  cat(1)

\* The outcome of a call: the heap after it, the object returned (0 when
\* the call raised), the exception raised ("" when none) and its line.
Raise(h, err, line) == [heap |-> h, id |-> 0, err |-> err, line |-> line]

Return(h, id) == [heap |-> h, id |-> id, err |-> "", line |-> 0]

isinstance_mesh(h, id) == id \in DOMAIN h

\* np.allclose(a, b) on two 3-vectors of integers:
\* |a - b| <= 1e-8 + 1e-5 * |b| componentwise.
AllClose(a, b) ==
    \A k \in 1..3 :
        LET d == Abs(a[k] - b[k])
        IN  d = 0 \/ d <= Abs(b[k]) \div 100000

\* ------------------------------------------------------ ReflectionSymmetry
\* A constructor that mirrors the half it was given instead of a copy of it.
ReflectionSymmetry_InPlace(h, half, plane, name) ==
    IF ~isinstance_mesh(h, half) THEN Raise(h, "AssertionError", 38)
    ELSE IF plane.normal[3] # 0 THEN Raise(h, "AssertionError", 40)
    ELSE
      LET h1 == ApplyLeaves(h, half, LAMBDA p : PartMirror(p, plane))
          h2 == [h1 EXCEPT ![half].name = <<Tok("mirror_of_", 0)>> \o h[half].name]
          self == CollectionOfMeshes("ReflectionSymmetry", <<half, half>>,
                     IF name = None THEN FormatName(h[half].name) ELSE name,
                     plane, Zero3, Zero3)
      IN  Return(Append(h2, self), Len(h2) + 1)

ReflectionSymmetry(h, half, plane, name) ==
    IF ~isinstance_mesh(h, half) THEN Raise(h, "AssertionError", 38)
    ELSE IF plane.normal[3] # 0 THEN Raise(h, "AssertionError", 40)
    ELSE
      LET cp == DeepCopy(h, half)
          h1 == ApplyLeaves(cp.heap, cp.id, LAMBDA p : PartMirror(p, plane))
          h2 == [h1 EXCEPT ![cp.id].name = <<Tok("mirror_of_", 0)>> \o h[half].name]
          self == CollectionOfMeshes("ReflectionSymmetry", <<half, cp.id>>,
                     IF name = None THEN FormatName(h[half].name) ELSE name,
                     plane, Zero3, Zero3)
      IN  Return(Append(h2, self), Len(h2) + 1)

\* --------------------------------------------------- TranslationalSymmetry
\* One turn of the loop of lines 89-93.
\* A loop that moves every copy by the translation itself, not i times it.
TranslatedSlice_Unscaled(h, mesh_slice, translation, i) ==
    LET cp == DeepCopy(h, mesh_slice)
        h1 == [cp.heap EXCEPT ![cp.id].name =
                   <<Tok("repetition_", i), Tok("_of_", 0)>> \o h[mesh_slice].name]
        h2 == ApplyLeaves(h1, cp.id, LAMBDA p : PartTranslate(p, translation))
    IN  [heap |-> h2, id |-> cp.id]

TranslatedSlice(h, mesh_slice, translation, i) ==
    LET cp == DeepCopy(h, mesh_slice)
        h1 == [cp.heap EXCEPT ![cp.id].name =
                   <<Tok("repetition_", i), Tok("_of_", 0)>> \o h[mesh_slice].name]
        h2 == ApplyLeaves(h1, cp.id, LAMBDA p : PartTranslate(p, VScale(i, translation)))
    IN  [heap |-> h2, id |-> cp.id]

RECURSIVE TranslatedSlices(_, _, _, _, _, _)
TranslatedSlices(h, mesh_slice, translation, i, nb_repetitions, slices) ==
    IF i > nb_repetitions THEN [heap |-> h, slices |-> slices]
    ELSE LET s == TranslatedSlice(h, mesh_slice, translation, i)
         IN  TranslatedSlices(s.heap, mesh_slice, translation, i + 1,
                              nb_repetitions, Append(slices, s.id))

\* A constructor that accepts nb_repetitions = 0.
TranslationalSymmetry_ZeroAllowed(h, mesh_slice, translation, nb_repetitions, name) ==
    IF ~isinstance_mesh(h, mesh_slice) THEN Raise(h, "AssertionError", 78)
    ELSE IF ~nb_repetitions.isint THEN Raise(h, "AssertionError", 79)
    ELSE IF ~(nb_repetitions.v >= 0) THEN Raise(h, "AssertionError", 80)
    ELSE IF Len(translation) # 3 THEN Raise(h, "AssertionError", 83)
    ELSE IF translation[3] # 0 THEN Raise(h, "AssertionError", 84)
    ELSE
      LET r == TranslatedSlices(h, mesh_slice, translation, 1, nb_repetitions.v,
                                <<mesh_slice>>)
          self == CollectionOfMeshes("TranslationalSymmetry", r.slices,
                     IF name = None THEN FormatName(h[mesh_slice].name) ELSE name,
                     NoPlane, translation, Zero3)
      IN  Return(Append(r.heap, self), Len(r.heap) + 1)

TranslationalSymmetry(h, mesh_slice, translation, nb_repetitions, name) ==
    IF ~isinstance_mesh(h, mesh_slice) THEN Raise(h, "AssertionError", 78)
    ELSE IF ~nb_repetitions.isint THEN Raise(h, "AssertionError", 79)
    ELSE IF ~(nb_repetitions.v >= 1) THEN Raise(h, "AssertionError", 80)
    ELSE IF Len(translation) # 3 THEN Raise(h, "AssertionError", 83)
    ELSE IF translation[3] # 0 THEN Raise(h, "AssertionError", 84)
    ELSE
      LET r == TranslatedSlices(h, mesh_slice, translation, 1, nb_repetitions.v,
                                <<mesh_slice>>)
          self == CollectionOfMeshes("TranslationalSymmetry", r.slices,
                     IF name = None THEN FormatName(h[mesh_slice].name) ELSE name,
                     NoPlane, translation, Zero3)
      IN  Return(Append(r.heap, self), Len(r.heap) + 1)

\* TranslationalSymmetry.join(*meshes), lines 109-118.  merge() of a plain
\* mesh is the mesh itself, merge() of a collection and the sum of meshes
\* are new plain meshes holding the parts in order.
RECURSIVE JoinedParts(_, _, _)
JoinedParts(h, meshes, k) ==
    IF k > Len(meshes) THEN <<>>
    ELSE Flatten(h, h[meshes[k]].submeshes[1]) \o JoinedParts(h, meshes, k + 1)

join(h, meshes) ==
    IF \E k \in DOMAIN meshes :
           ~isinstance_mesh(h, meshes[k]) \/ h[meshes[k]].kind # "TranslationalSymmetry"
    THEN Raise(h, "AssertionError", 111)
    ELSE IF \E k \in DOMAIN meshes :
           k > 1 /\ ~AllClose(h[meshes[1]].translation, h[meshes[k]].translation)
    THEN Raise(h, "AssertionError", 112)
    ELSE IF \E k \in DOMAIN meshes :
           k > 1 /\ Len(h[meshes[1]].submeshes) # Len(h[meshes[k]].submeshes)
    THEN Raise(h, "AssertionError", 113)
    ELSE IF meshes = <<>> THEN Raise(h, "IndexError", 116)
    ELSE
      LET first == h[meshes[1]].submeshes[1]
          alone == Len(meshes) = 1 /\ h[first].kind = "Mesh"
          merged == PlainMesh(<<Tok("merged_", 0)>> \o h[first].name,
                              JoinedParts(h, meshes, 1))
          h1 == IF alone THEN h ELSE Append(h, merged)
          mesh_slice == IF alone THEN first ELSE Len(h1)
      IN  TranslationalSymmetry(h1, mesh_slice, h[meshes[1]].translation,
              [isint |-> TRUE, v |-> Len(h[meshes[1]].submeshes)], None)

\* ----------------------------------------------------------- AxialSymmetry
\* The angle 2*i*pi/(nb_repetitions+1) of line 151, in units of 1/TurnUnits.
SliceAngle(i, nb_repetitions) == (i * TurnUnits) \div (nb_repetitions + 1)

\* One turn of the loop of lines 147-153.
RotatedSlice(h, mesh_slice, point_on_rotation_axis, nb_repetitions, i) ==
    LET cp == DeepCopy(h, mesh_slice)
        h1 == [cp.heap EXCEPT ![cp.id].name =
                   <<Tok("rotation_", i), Tok("_of_", 0)>> \o h[mesh_slice].name]
        h2 == ApplyLeaves(h1, cp.id,
                  LAMBDA p : PartTranslate(p, VScale(-1, point_on_rotation_axis)))
        h3 == ApplyLeaves(h2, cp.id,
                  LAMBDA p : PartRotateZ(p, SliceAngle(i, nb_repetitions)))
        h4 == ApplyLeaves(h3, cp.id,
                  LAMBDA p : PartTranslate(p, point_on_rotation_axis))
    IN  [heap |-> h4, id |-> cp.id]

RECURSIVE RotatedSlices(_, _, _, _, _, _)
RotatedSlices(h, mesh_slice, point_on_rotation_axis, i, nb_repetitions, slices) ==
    IF i > nb_repetitions THEN [heap |-> h, slices |-> slices]
    ELSE LET s == RotatedSlice(h, mesh_slice, point_on_rotation_axis, nb_repetitions, i)
         IN  RotatedSlices(s.heap, mesh_slice, point_on_rotation_axis, i + 1,
                           nb_repetitions, Append(slices, s.id))

AxialSymmetry(h, mesh_slice, point_on_rotation_axis, nb_repetitions, name) ==
    IF ~isinstance_mesh(h, mesh_slice) THEN Raise(h, "AssertionError", 137)
    ELSE IF ~nb_repetitions.isint THEN Raise(h, "AssertionError", 138)
    ELSE IF ~(nb_repetitions.v >= 1) THEN Raise(h, "AssertionError", 139)
    ELSE IF Len(point_on_rotation_axis) # 3 THEN Raise(h, "AssertionError", 142)
    ELSE
      LET r == RotatedSlices(h, mesh_slice, point_on_rotation_axis, 1,
                             nb_repetitions.v, <<mesh_slice>>)
          self == CollectionOfMeshes("AxialSymmetry", r.slices,
                     IF name = None THEN FormatName(h[mesh_slice].name) ELSE name,
                     NoPlane, Zero3, point_on_rotation_axis)
      IN  Return(Append(r.heap, self), Len(r.heap) + 1)

\* AxialSymmetry.from_profile, lines 163-217.  profile = [callable, shape]:
\* shape is the shape of np.asarray(profile), or (len(z_range), 3) for a
\* callable.  The slice is the ring of panels between the profile and its
\* rotation by 2*pi/nphi about the vertical axis through the origin.
\* mesh_ok: whether the mesh primitive accepts a slice without faces.
from_profile(h, profile, point_on_rotation_axis, nphi, name, mesh_ok) ==
    IF Len(profile.shape) # 2 THEN Raise(h, "AssertionError", 202)
    ELSE IF profile.shape[2] # 3 THEN Raise(h, "AssertionError", 203)
    ELSE IF nphi = 0 THEN Raise(h, "ZeroDivisionError", 206)
    ELSE IF profile.shape[1] < 2 /\ ~mesh_ok THEN Raise(h, "MeshError", 213)
    ELSE
      LET nm == IF name = None THEN <<Tok("axisymmetric_mesh", 0)>> ELSE name
          body_slice == PlainMesh(<<Tok("slice_of_", 0)>> \o nm \o <<Tok("_mesh", 0)>>,
                          <<[shape |-> [src |-> "profile", n |-> profile.shape[1],
                                        nphi |-> nphi],
                             c |-> Zero3, th |-> 0, flip |-> FALSE]>>)
          r == AxialSymmetry(Append(h, body_slice), Len(h) + 1,
                             point_on_rotation_axis,
                             [isint |-> TRUE, v |-> nphi - 1], nm)
      IN  IF r.err # "" THEN Raise(h, r.err, r.line) ELSE r

\* ------------------------------------------------- the influence matrices
\* The pose of part b seen from part a: a^-1 b.  It is unchanged when a and
\* b are moved by one and the same translation, rotation about a vertical
\* axis or mirror across a vertical plane.
Rel(a, b) ==
    LET d0 == RotVec(VSub(b.c, a.c), TurnUnits - a.th)
    IN  [d |-> IF a.flip THEN <<d0[1], -d0[2], d0[3]>> ELSE d0,
         th |-> IF a.flip THEN (a.th - b.th) % TurnUnits
                ELSE (b.th - a.th) % TurnUnits,
         flip |-> a.flip # b.flip,
         z |-> a.c[3]]

RelExact(a, b) == RotExact(VSub(b.c, a.c), a.th)

\* One coefficient of the base kernel: the integral of the Green function
\* (S) or of its derivative (V) over part b, seen from part a.
Coefficient(m, solver, args, a, b) ==
    [m |-> m, solver |-> solver, args |-> args,
     from |-> a.shape, to |-> b.shape, rel |-> Rel(a, b)]

Dense(rows) == [type |-> "dense", blocks |-> <<>>, size |-> 0, rows |-> rows]

\* build_matrices(solver, mesh1, mesh2, *args): the base kernel evaluator,
\* rows over the panels of mesh1 and columns over those of mesh2.
build_matrices(h, solver, mesh1, mesh2, args) ==
    LET A == Flatten(h, mesh1)
        B == Flatten(h, mesh2)
        M(m) == Dense([i \in 1..Len(A) |->
                          [j \in 1..Len(B) |-> Coefficient(m, solver, args, A[i], B[j])]])
    IN  [S |-> M("S"), V |-> M("V")]

BlockToeplitzMatrix(blocks) ==
    [type |-> "toeplitz", blocks |-> blocks, size |-> Len(blocks), rows |-> <<>>]

BlockCirculantMatrix(blocks, size) ==
    [type |-> "circulant", blocks |-> blocks, size |-> size, rows |-> <<>>]

\* The block shown at block position (i, j), counted from 0, of a
\* structured matrix of n by n blocks.
BlockAt(type, i, j, n) ==
    IF type = "toeplitz" THEN Abs(i - j)
    ELSE Min((j - i) % n, (i - j) % n)

\* The dense matrix a matrix expands to.
RECURSIVE full_matrix(_)
full_matrix(M) ==
    IF M.type = "dense" THEN M.rows
    ELSE
      LET n == M.size
          E == [k \in 1..Len(M.blocks) |-> full_matrix(M.blocks[k])]
          nr == Len(E[1])
          RECURSIVE row(_, _, _)
          row(i, r, j) == IF j >= n THEN <<>>
                          ELSE E[BlockAt(M.type, i, j, n) + 1][r] \o row(i, r, j + 1)
      IN  [q \in 1..(n * nr) |-> row((q - 1) \div nr, ((q - 1) % nr) + 1, 0)]

\* ----------------------------------- use_symmetries: the recursive assembler
\* A dispatch that does not compare the sub-mesh counts of two
\* Translational Symmetries.
Dispatch_NoCountCheck(h, mesh1, mesh2, _rec_depth) ==
    IF /\ h[mesh1].kind = "ReflectionSymmetry"
       /\ h[mesh2].kind = "ReflectionSymmetry"
       /\ h[mesh1].plane = h[mesh2].plane
    THEN "mirror"
    ELSE IF /\ h[mesh1].kind = "TranslationalSymmetry"
            /\ h[mesh2].kind = "TranslationalSymmetry"
            /\ AllClose(h[mesh1].translation, h[mesh2].translation)
    THEN "translation"
    ELSE IF h[mesh1].kind = "AxialSymmetry" /\ mesh1 = mesh2
    THEN "rotation"
    ELSE "base"

\* A dispatch that gives up the symmetries from the third level on.
Dispatch_DepthLimited(h, mesh1, mesh2, _rec_depth) ==
    IF _rec_depth >= 3 THEN "base"
    ELSE IF /\ h[mesh1].kind = "ReflectionSymmetry"
            /\ h[mesh2].kind = "ReflectionSymmetry"
            /\ h[mesh1].plane = h[mesh2].plane
    THEN "mirror"
    ELSE IF /\ h[mesh1].kind = "TranslationalSymmetry"
            /\ h[mesh2].kind = "TranslationalSymmetry"
            /\ AllClose(h[mesh1].translation, h[mesh2].translation)
            /\ nb_submeshes(h, mesh1) = nb_submeshes(h, mesh2)
    THEN "translation"
    ELSE IF h[mesh1].kind = "AxialSymmetry" /\ mesh1 = mesh2
    THEN "rotation"
    ELSE "base"

\* The branch of lines 267-326 taken for (mesh1, mesh2).
Dispatch(h, mesh1, mesh2, _rec_depth) ==
    IF /\ h[mesh1].kind = "ReflectionSymmetry"
       /\ h[mesh2].kind = "ReflectionSymmetry"
       /\ h[mesh1].plane = h[mesh2].plane
    THEN "mirror"
    ELSE IF /\ h[mesh1].kind = "TranslationalSymmetry"
            /\ h[mesh2].kind = "TranslationalSymmetry"
            /\ AllClose(h[mesh1].translation, h[mesh2].translation)
            /\ nb_submeshes(h, mesh1) = nb_submeshes(h, mesh2)
    THEN "translation"
    ELSE IF h[mesh1].kind = "AxialSymmetry" /\ mesh1 = mesh2
    THEN "rotation"
    ELSE "base"

\* A rotation case that stops one sub-mesh short of the half turn.
Sources_HalfOnly(h, mesh2, case) ==
    LET subs == h[mesh2].submeshes
    IN  CASE case = "mirror" -> <<subs[1], subs[2]>>
          [] case = "translation" -> subs
          [] case = "rotation" -> SubSeq(subs, 1, nb_submeshes(h, mesh2) \div 2)
          [] OTHER -> <<>>

\* A translation case that leaves out the last sub-mesh of mesh2.
Sources_DropLast(h, mesh2, case) ==
    LET subs == h[mesh2].submeshes
    IN  CASE case = "mirror" -> <<subs[1], subs[2]>>
          [] case = "translation" -> SubSeq(subs, 1, Len(subs) - 1)
          [] case = "rotation" -> SubSeq(subs, 1, nb_submeshes(h, mesh2) \div 2 + 1)
          [] OTHER -> <<>>

\* A mirror case that takes the mirrored half first.
Sources_Swapped(h, mesh2, case) ==
    LET subs == h[mesh2].submeshes
    IN  CASE case = "mirror" -> <<subs[2], subs[1]>>
          [] case = "translation" -> subs
          [] case = "rotation" -> SubSeq(subs, 1, nb_submeshes(h, mesh2) \div 2 + 1)
          [] OTHER -> <<>>

\* The sub-meshes of mesh2 a branch recurses on, with mesh1.submeshes[0].
Sources(h, mesh2, case) ==
    LET subs == h[mesh2].submeshes
    IN  CASE case = "mirror" -> <<subs[1], subs[2]>>
          [] case = "translation" -> subs
          [] case = "rotation" -> SubSeq(subs, 1, nb_submeshes(h, mesh2) \div 2 + 1)
          [] OTHER -> <<>>

Structured(case, blocks, size) ==
    IF case = "rotation" THEN BlockCirculantMatrix(blocks, size)
    ELSE BlockToeplitzMatrix(blocks)

\* build_matrices_with_symmetries(solver, mesh1, mesh2, *args, _rec_depth):
\* the pair (S, V) returned and the calls made, in the order they are entered.
RECURSIVE build_matrices_with_symmetries(_, _, _, _, _, _)
build_matrices_with_symmetries(h, solver, mesh1, mesh2, args, _rec_depth) ==
    LET case == Dispatch(h, mesh1, mesh2, _rec_depth)
        call == [mesh1 |-> mesh1, mesh2 |-> mesh2, depth |-> _rec_depth,
                 case |-> case, solver |-> solver, args |-> args]
        src == Sources(h, mesh2, case)
        sub == [k \in 1..Len(src) |->
                   build_matrices_with_symmetries(h, solver, h[mesh1].submeshes[1],
                                                  src[k], args, _rec_depth + 1)]
        RECURSIVE logs(_)
        logs(k) == IF k > Len(src) THEN <<>> ELSE sub[k].log \o logs(k + 1)
    IN  IF case = "base"
        THEN LET r == build_matrices(h, solver, mesh1, mesh2, args)
             IN  [S |-> r.S, V |-> r.V, log |-> <<call>>]
        ELSE [S |-> Structured(case, [k \in 1..Len(src) |-> sub[k].S],
                               nb_submeshes(h, mesh1)),
              V |-> Structured(case, [k \in 1..Len(src) |-> sub[k].V],
                               nb_submeshes(h, mesh1)),
              log |-> <<call>> \o logs(1)]

\* ------------------------------------------------------- the state machine
VARIABLES
    heap,     \* the mesh objects, by identity
    heap0,    \* the heap before the last call
    ret,      \* the last call: its arguments and its outcome
    held,     \* the meshes the caller holds: given to it or returned to it
    nctor,    \* constructor calls made
    njoin     \* join calls made

vars == <<heap, heap0, ret, held, nctor, njoin>>

\* The arguments the calls are tried with.
Planes ==
    {[normal |-> <<1, 0, 0>>, c |-> 0], [normal |-> <<0, 1, 0>>, c |-> 1],
     [normal |-> <<0, 0, 1>>, c |-> 0]}

Translations ==
    {<<1, 0, 0>>, <<100000, 0, 0>>, <<100001, 0, 0>>, <<1, 0, 1>>, <<1, 0>>}

Repetitions ==
    {[isint |-> TRUE, v |-> k] : k \in 0..MaxRep} \cup {[isint |-> FALSE, v |-> 1]}

AxisPoints == {<<1, 0, 0>>, Zero3, <<0, 0>>}

Names == {None}

Profiles ==
    {[callable |-> TRUE, shape |-> <<2, 3>>], [callable |-> FALSE, shape |-> <<1, 3>>],
     [callable |-> FALSE, shape |-> <<2, 2>>], [callable |-> FALSE, shape |-> <<3>>]}

Calls == {[solver |-> "solver", args |-> <<>>, depth |-> 1],
          [solver |-> "solver", args |-> <<"omega">>, depth |-> 2]}

GivenMesh(k, c) ==
    PlainMesh(<<Tok("mesh_", k)>>,
              <<[shape |-> [src |-> "given", n |-> k, nphi |-> 0],
                 c |-> c, th |-> 0, flip |-> FALSE]>>)

NoCall ==
    [op |-> "none", mesh1 |-> 0, mesh2 |-> 0, meshes |-> <<>>, plane |-> NoPlane,
     vec |-> Zero3, nb |-> [isint |-> TRUE, v |-> 0], name |-> None,
     profile |-> [callable |-> FALSE, shape |-> <<>>], nphi |-> 0,
     solver |-> "", args |-> <<>>, depth |-> 0,
     id |-> 0, err |-> "", line |-> 0,
     S |-> Dense(<<>>), V |-> Dense(<<>>), log |-> <<>>]

Outcome(call, r) == [call EXCEPT !.id = r.id, !.err = r.err, !.line = r.line]

Init ==
    /\ heap = <<GivenMesh(1, <<1, 0, -1>>)>>
    /\ heap0 = heap
    /\ ret = NoCall
    /\ held = {1}
    /\ nctor = 0
    /\ njoin = 0

\* The caller may make one more constructor call.
MayConstruct == ret.op = "none" /\ nctor < MaxCtor

\* Every rotation a construction makes is exact in the model's arithmetic.
RotationsExact(h, mesh_slice, point, nb) ==
    IF ~isinstance_mesh(h, mesh_slice) \/ ~nb.isint \/ Len(point) # 3 THEN TRUE
    ELSE \A i \in 1..nb.v :
           \A k \in DOMAIN Flatten(h, mesh_slice) :
               RotExact(VSub(Flatten(h, mesh_slice)[k].c, point), SliceAngle(i, nb.v))

Constructed(r, call) ==
    /\ Len(r.heap) <= MaxHeap
    /\ heap' = r.heap
    /\ heap0' = heap
    /\ ret' = Outcome(call, r)
    /\ held' = IF r.err = "" THEN held \cup {r.id} ELSE held
    /\ nctor' = nctor + 1
    /\ UNCHANGED njoin

NewReflectionSymmetry ==
    /\ MayConstruct
    /\ \E half \in held \cup {0}, plane \in Planes, name \in Names :
           Constructed(ReflectionSymmetry(heap, half, plane, name),
                       [NoCall EXCEPT !.op = "ReflectionSymmetry", !.mesh1 = half,
                                      !.plane = plane, !.name = name])

NewTranslationalSymmetry ==
    /\ MayConstruct
    /\ \E mesh_slice \in held \cup {0}, translation \in Translations,
          nb \in Repetitions, name \in Names :
           Constructed(TranslationalSymmetry(heap, mesh_slice, translation, nb, name),
                       [NoCall EXCEPT !.op = "TranslationalSymmetry", !.mesh1 = mesh_slice,
                                      !.vec = translation, !.nb = nb, !.name = name])

NewAxialSymmetry ==
    /\ MayConstruct
    /\ \E mesh_slice \in held \cup {0}, point \in AxisPoints,
          nb \in Repetitions, name \in Names :
           /\ RotationsExact(heap, mesh_slice, point, nb) = TRUE
           /\ Constructed(AxialSymmetry(heap, mesh_slice, point, nb, name),
                          [NoCall EXCEPT !.op = "AxialSymmetry", !.mesh1 = mesh_slice,
                                         !.vec = point, !.nb = nb, !.name = name])

FromProfile ==
    /\ MayConstruct
    /\ \E profile \in Profiles, point \in {Zero3}, nphi \in 0..MaxNphi,
          name \in Names, mesh_ok \in BOOLEAN :
           /\ (nphi > 0 => RotExact(VScale(-1, point), SliceAngle(1, nphi - 1))) = TRUE
           /\ Constructed(from_profile(heap, profile, point, nphi, name, mesh_ok),
                          [NoCall EXCEPT !.op = "from_profile", !.profile = profile,
                                         !.vec = point, !.nphi = nphi, !.name = name])

Join ==
    /\ ret.op = "none"
    /\ njoin < MaxJoin
    /\ \E meshes \in {<<>>} \cup {<<a>> : a \in held} \cup {<<a, b>> : a, b \in held} :
        LET r == join(heap, meshes)
        IN  /\ Len(r.heap) <= MaxHeap
            /\ heap' = r.heap
            /\ heap0' = heap
            /\ ret' = Outcome([NoCall EXCEPT !.op = "join", !.meshes = meshes], r)
            /\ held' = IF r.err = "" THEN held \cup {r.id} ELSE held
            /\ njoin' = njoin + 1
            /\ UNCHANGED nctor

\* Every coefficient between the two meshes is exact in the model's arithmetic.
KernelExact(h, mesh1, mesh2) ==
    \A i \in DOMAIN Flatten(h, mesh1), j \in DOMAIN Flatten(h, mesh2) :
        RelExact(Flatten(h, mesh1)[i], Flatten(h, mesh2)[j])

Assemble ==
    /\ ret.op = "none"
    /\ \E mesh1 \in held, mesh2 \in held, call \in Calls :
        /\ KernelExact(heap, mesh1, mesh2) = TRUE
        /\ LET r == build_matrices_with_symmetries(heap, call.solver, mesh1, mesh2,
                                                   call.args, call.depth)
           IN  ret' = [NoCall EXCEPT !.op = "assemble", !.mesh1 = mesh1,
                                     !.mesh2 = mesh2, !.solver = call.solver,
                                     !.args = call.args, !.depth = call.depth,
                                     !.S = r.S, !.V = r.V, !.log = r.log]
        /\ heap0' = heap
        /\ UNCHANGED <<heap, held, nctor, njoin>>

\* The caller is done with the outcome of the last call.
Discard ==
    /\ ret.op # "none"
    /\ ret' = NoCall
    /\ heap0' = heap
    /\ UNCHANGED <<heap, held, nctor, njoin>>

Next ==
    \/ NewReflectionSymmetry
    \/ NewTranslationalSymmetry
    \/ NewAxialSymmetry
    \/ FromProfile
    \/ Join
    \/ Assemble
    \/ Discard

Spec == Init /\ [][Next]_vars

\* ----------------------------------------------------------- what is checked
Assembled == ret.op = "assemble"

Built(op) == ret.op = op /\ ret.err = ""

\* The calls the top call of the last assemble made itself, in order.
RecursiveCalls == SelectSeq(ret.log, LAMBDA e : e.depth = ret.depth + 1)

\* The evaluations of the base kernel the last assemble made, in order.
BaseEvaluations == SelectSeq(ret.log, LAMBDA e : e.case = "base")

AllPlain(h, id) == \A k \in DOMAIN h[id].submeshes : h[h[id].submeshes[k]].kind = "Mesh"

\* The objects are allocated bottom-up: a sub-mesh is older than its collection.
WellFounded ==
    \A id \in DOMAIN heap : \A k \in DOMAIN heap[id].submeshes :
        heap[id].submeshes[k] < id

\* C1. Equivalence: whenever assemble takes the mirror, translation or
\* rotation case, the matrix returned shows at every block position (i, j) the
\* block the base kernel evaluator returns for (mesh1.submeshes[i],
\* mesh2.submeshes[j]), for S and for V (the kernel of the model is unchanged
\* when both meshes are moved by one transform).
C1_Equivalence ==
    (Assembled /\ ret.log[1].case # "base") =>
        LET n == nb_submeshes(heap, ret.mesh1)
        IN  \A i \in 0..(n - 1), j \in 0..(n - 1) :
              LET b == build_matrices(heap, ret.solver,
                                      heap[ret.mesh1].submeshes[i + 1],
                                      heap[ret.mesh2].submeshes[j + 1], ret.args)
                  at == BlockAt(ret.S.type, i, j, n) + 1
              IN  /\ full_matrix(ret.S.blocks[at]) = b.S.rows
                  /\ full_matrix(ret.V.blocks[at]) = b.V.rows

\* The mirror case alone, on plain halves, does show the blocks of the base
\* kernel: the kernel of the model is unchanged under a shared mirror.
MirrorEquivalence ==
    (Assembled /\ ret.log[1].case = "mirror"
       /\ AllPlain(heap, ret.mesh1) /\ AllPlain(heap, ret.mesh2)) =>
        /\ full_matrix(ret.S) =
             build_matrices(heap, ret.solver, ret.mesh1, ret.mesh2, ret.args).S.rows
        /\ full_matrix(ret.V) =
             build_matrices(heap, ret.solver, ret.mesh1, ret.mesh2, ret.args).V.rows

\* The last assemble went straight to the base kernel evaluator: one call,
\* no recursion, the arguments as given, the pair returned as it came.
FellBack ==
    /\ ret.err = ""
    /\ ret.log = <<[mesh1 |-> ret.mesh1, mesh2 |-> ret.mesh2, depth |-> ret.depth,
                    case |-> "base", solver |-> ret.solver, args |-> ret.args]>>
    /\ ret.S = build_matrices(heap, ret.solver, ret.mesh1, ret.mesh2, ret.args).S
    /\ ret.V = build_matrices(heap, ret.solver, ret.mesh1, ret.mesh2, ret.args).V
    /\ ret.S.type = "dense" /\ ret.V.type = "dense"

BothOfKind(kind) ==
    Assembled /\ heap[ret.mesh1].kind = kind /\ heap[ret.mesh2].kind = kind

\* Some component of a is further from that of b than np.allclose allows.
BeyondTolerance(a, b) ==
    \E k \in 1..3 : Abs(a[k] - b[k]) > Abs(b[k]) \div 100000

\* C2, as stated.  Fallback: two Translational Symmetries whose translation
\* vectors differ or whose sub-mesh counts differ, and two Reflection
\* Symmetries with different planes, go to the base kernel evaluator: no
\* error, no recursive call, one base call with the original arguments, its
\* pair returned unchanged and unwrapped.
C2_FallbackAsStated ==
    /\ (BothOfKind("TranslationalSymmetry")
          /\ \/ heap[ret.mesh1].translation # heap[ret.mesh2].translation
             \/ nb_submeshes(heap, ret.mesh1) # nb_submeshes(heap, ret.mesh2))
        => FellBack
    /\ (BothOfKind("ReflectionSymmetry") /\ heap[ret.mesh1].plane # heap[ret.mesh2].plane)
        => FellBack

\* C2, amended.  The same, for translation vectors that differ by more than
\* the tolerance of np.allclose in some component (|t1 - t2| > 1e-8 + 1e-5 |t2|).
C2_Fallback ==
    /\ (BothOfKind("TranslationalSymmetry")
          /\ \/ BeyondTolerance(heap[ret.mesh1].translation, heap[ret.mesh2].translation)
             \/ nb_submeshes(heap, ret.mesh1) # nb_submeshes(heap, ret.mesh2))
        => FellBack
    /\ (BothOfKind("ReflectionSymmetry") /\ heap[ret.mesh1].plane # heap[ret.mesh2].plane)
        => FellBack

\* Two Translational Symmetries of the same vector and different counts fell back.
C2_Witness ==
    /\ BothOfKind("TranslationalSymmetry")
    /\ heap[ret.mesh1].translation = heap[ret.mesh2].translation
    /\ nb_submeshes(heap, ret.mesh1) # nb_submeshes(heap, ret.mesh2)
    /\ ret.args # <<>>
    /\ FellBack

\* C3. join on k >= 1 Translational Symmetries sharing the translation t and
\* the repetition count n returns one Translational Symmetry of translation t
\* and repetition count n, whose sub-mesh i is, for every i in 0..n, the
\* union of the sub-meshes i of the inputs.
C3_Join ==
    (/\ ret.op = "join" /\ Len(ret.meshes) >= 1
     /\ \A k \in DOMAIN ret.meshes :
          /\ heap0[ret.meshes[k]].kind = "TranslationalSymmetry"
          /\ heap0[ret.meshes[k]].translation = heap0[ret.meshes[1]].translation
          /\ nb_submeshes(heap0, ret.meshes[k]) = nb_submeshes(heap0, ret.meshes[1]))
    => LET n == nb_submeshes(heap0, ret.meshes[1]) - 1
           RECURSIVE union(_, _)
           union(i, k) == IF k > Len(ret.meshes) THEN <<>>
                          ELSE Flatten(heap0, heap0[ret.meshes[k]].submeshes[i + 1])
                                  \o union(i, k + 1)
       IN  /\ ret.err = ""
           /\ heap[ret.id].kind = "TranslationalSymmetry"
           /\ heap[ret.id].translation = heap0[ret.meshes[1]].translation
           /\ nb_submeshes(heap, ret.id) = n + 1
           /\ \A i \in 0..n : Flatten(heap, heap[ret.id].submeshes[i + 1]) = union(i, 1)

\* What join does keep: the translation, and the union of the sub-meshes i of
\* the inputs as sub-mesh i, for every i the inputs have.
JoinKeepsSlices ==
    (ret.op = "join" /\ ret.err = "") =>
        LET RECURSIVE union(_, _)
            union(i, k) == IF k > Len(ret.meshes) THEN <<>>
                           ELSE Flatten(heap0, heap0[ret.meshes[k]].submeshes[i + 1])
                                   \o union(i, k + 1)
        IN  /\ heap[ret.id].translation = heap0[ret.meshes[1]].translation
            /\ nb_submeshes(heap, ret.id) = nb_submeshes(heap0, ret.meshes[1]) + 1
            /\ \A i \in 0..(nb_submeshes(heap0, ret.meshes[1]) - 1) :
                 (\A k \in DOMAIN ret.meshes :
                      heap0[ret.meshes[k]].translation = heap0[ret.meshes[1]].translation)
                 => Flatten(heap, heap[ret.id].submeshes[i + 1]) = union(i, 1)

\* An Axial Symmetry made by from_profile: its first sub-mesh is the slice
\* from_profile builds.
FromProfileMesh(h, id) ==
    /\ h[id].kind = "AxialSymmetry"
    /\ h[h[id].submeshes[1]].kind = "Mesh"
    /\ h[h[id].submeshes[1]].parts[1].shape.src = "profile"

\* C4. Rotation case count: an Axial Symmetry built by from_profile with nphi
\* slices has exactly nphi sub-meshes; assemble on it against itself takes the
\* rotation case and calls the base kernel evaluator floor(nphi/2)+1 times,
\* once for each pair (submeshes[0], submeshes[k]), k = 0..floor(nphi/2), in
\* that order, and returns BlockCirculant matrices of size nphi.
C4_RotationCount ==
    /\ Built("from_profile") =>
          /\ nb_submeshes(heap, ret.id) = ret.nphi
          /\ FromProfileMesh(heap, ret.id)
    /\ (Assembled /\ ret.mesh1 = ret.mesh2 /\ FromProfileMesh(heap, ret.mesh1)) =>
          LET nphi == heap[heap[ret.mesh1].submeshes[1]].parts[1].shape.nphi
              subs == heap[ret.mesh1].submeshes
          IN  /\ Len(subs) = nphi
              /\ ret.log[1].case = "rotation"
              /\ Len(BaseEvaluations) = nphi \div 2 + 1
              /\ Len(ret.log) = nphi \div 2 + 2
              /\ \A k \in 0..(nphi \div 2) :
                    /\ BaseEvaluations[k + 1].mesh1 = subs[1]
                    /\ BaseEvaluations[k + 1].mesh2 = subs[k + 1]
              /\ ret.S.type = "circulant" /\ ret.S.size = nphi
              /\ ret.V.type = "circulant" /\ ret.V.size = nphi
              /\ Len(ret.S.blocks) = nphi \div 2 + 1
              /\ Len(ret.V.blocks) = nphi \div 2 + 1

\* The square ring: nphi = 4, four sub-meshes, three base evaluations.
C4_Witness ==
    /\ Assembled /\ ret.mesh1 = ret.mesh2 /\ FromProfileMesh(heap, ret.mesh1)
    /\ nb_submeshes(heap, ret.mesh1) = 4
    /\ Len(BaseEvaluations) = 3

\* The preconditions C5 names, read off the arguments of the last call.
PreconditionViolated ==
    \/ ret.op = "ReflectionSymmetry" /\ ret.plane.normal[3] # 0
    \/ ret.op = "TranslationalSymmetry"
         /\ \/ Len(ret.vec) = 3 /\ ret.vec[3] # 0
            \/ ~ret.nb.isint
            \/ ret.nb.v < 1
    \/ ret.op = "AxialSymmetry" /\ ret.nb.isint /\ ret.nb.v < 1

ProfileMalformed ==
    ret.op = "from_profile"
      /\ ~(Len(ret.profile.shape) = 2 /\ ret.profile.shape[2] = 3
             /\ ret.profile.shape[1] >= 2)

ProfileNotThreeColumns ==
    ret.op = "from_profile"
      /\ ~(Len(ret.profile.shape) = 2 /\ ret.profile.shape[2] = 3)

NothingBuilt == ret.id = 0 /\ heap = heap0

C6_Translated ==
    Built("TranslationalSymmetry") =>
        LET M == Flatten(heap0, ret.mesh1)
            subs == heap[ret.id].submeshes
        IN  /\ Len(subs) = ret.nb.v + 1
            /\ \A i \in 0..ret.nb.v :
                  Flatten(heap, subs[i + 1]) =
                      [k \in 1..Len(M) |->
                          [M[k] EXCEPT !.c = <<M[k].c[1] + i * ret.vec[1],
                                               M[k].c[2] + i * ret.vec[2],
                                               M[k].c[3] + i * ret.vec[3]>>]]

\* Two repetitions: the last sub-mesh lies two translations away from M.
C6_Witness ==
    /\ Built("TranslationalSymmetry") /\ ret.nb.v = 2
    /\ Flatten(heap, heap[ret.id].submeshes[3])[1].c
         = VAdd(Flatten(heap0, ret.mesh1)[1].c, VAdd(ret.vec, ret.vec))
    /\ ret.vec # Zero3

\* The label a copy receives: its tokens, then the name of the input.
Labelled(name, tag, of) ==
    /\ Len(name) > Len(of)
    /\ name[1].tag = tag
    /\ SubSeq(name, Len(name) - Len(of) + 1, Len(name)) = of

CopyLabel(op) ==
    CASE op = "ReflectionSymmetry" -> "mirror_of_"
      [] op = "TranslationalSymmetry" -> "repetition_"
      [] OTHER -> "rotation_"

\* C7. Constructing a ReflectionSymmetry, TranslationalSymmetry or
\* AxialSymmetry leaves the input mesh (and every object there was) unchanged;
\* sub-mesh 0 of the result is the input object itself, every other sub-mesh is
\* a separate new copy, which carries the new label and the transform.
C7_InputUntouched ==
    (Built("ReflectionSymmetry") \/ Built("TranslationalSymmetry")
       \/ Built("AxialSymmetry")) =>
        LET subs == heap[ret.id].submeshes
            old == 1..Len(heap0)
        IN  /\ \A k \in old : heap[k] = heap0[k]
            /\ subs[1] = ret.mesh1
            /\ Len(subs) >= 2
            /\ \A i \in 2..Len(subs) :
                  /\ Reach(heap, subs[i]) \cap old = {}
                  /\ \A j \in 1..(i - 1) : Reach(heap, subs[i]) \cap Reach(heap, subs[j]) = {}
                  /\ Labelled(heap[subs[i]].name, CopyLabel(ret.op), heap0[ret.mesh1].name)
                  /\ Len(Flatten(heap, subs[i])) = Len(Flatten(heap0, ret.mesh1))
            /\ Built("ReflectionSymmetry") =>
                  /\ Len(subs) = 2
                  /\ \A k \in DOMAIN Flatten(heap0, ret.mesh1) :
                        /\ Flatten(heap, subs[2])[k].flip = ~Flatten(heap0, ret.mesh1)[k].flip
                        /\ Flatten(heap, subs[2])[k].c[1] + Flatten(heap0, ret.mesh1)[k].c[1]
                             = 2 * ret.plane.c * ret.plane.normal[1]
                               + 2 * Flatten(heap0, ret.mesh1)[k].c[1] * ret.plane.normal[2]

\* A mirror image was made of a mesh off the mirror plane.
C7_Witness ==
    /\ Built("ReflectionSymmetry")
    /\ Flatten(heap, heap[ret.id].submeshes[2]) # Flatten(heap, ret.mesh1)
    /\ Flatten(heap, heap[ret.id].submeshes[2])[1].c # Flatten(heap, ret.mesh1)[1].c
    /\ heap[ret.mesh1] = heap0[ret.mesh1]

\* C8. Translation case: for two Translational Symmetries of equal translation
\* vectors and equal sub-mesh count n, assemble makes exactly n recursive
\* calls, the k-th on (mesh1.submeshes[0], mesh2.submeshes[k]), and returns
\* BlockToeplitz matrices whose k-th block is the result of the k-th call;
\* with plain sub-meshes that is n base kernel evaluations.
C8_TranslationCase ==
    (BothOfKind("TranslationalSymmetry")
       /\ heap[ret.mesh1].translation = heap[ret.mesh2].translation
       /\ nb_submeshes(heap, ret.mesh1) = nb_submeshes(heap, ret.mesh2)) =>
        LET n == nb_submeshes(heap, ret.mesh2)
            first == heap[ret.mesh1].submeshes[1]
            subs == heap[ret.mesh2].submeshes
            kth(k) == build_matrices_with_symmetries(heap, ret.solver, first, subs[k],
                                                     ret.args, ret.depth + 1)
        IN  /\ ret.log[1].case = "translation"
            /\ Len(RecursiveCalls) = n
            /\ \A k \in 1..n :
                  /\ RecursiveCalls[k].mesh1 = first
                  /\ RecursiveCalls[k].mesh2 = subs[k]
                  /\ RecursiveCalls[k].solver = ret.solver
                  /\ RecursiveCalls[k].args = ret.args
            /\ ret.S.type = "toeplitz" /\ ret.V.type = "toeplitz"
            /\ Len(ret.S.blocks) = n /\ Len(ret.V.blocks) = n
            /\ \A k \in 1..n : ret.S.blocks[k] = kth(k).S /\ ret.V.blocks[k] = kth(k).V
            /\ (AllPlain(heap, ret.mesh1) /\ AllPlain(heap, ret.mesh2)) =>
                  /\ Len(BaseEvaluations) = n
                  /\ \A k \in 1..n :
                        /\ ret.S.blocks[k] =
                             build_matrices(heap, ret.solver, first, subs[k], ret.args).S
                        /\ ret.V.blocks[k] =
                             build_matrices(heap, ret.solver, first, subs[k], ret.args).V

\* Two distinct Translational Symmetries of three plain slices each: three
\* base evaluations.
C8_Witness ==
    /\ BothOfKind("TranslationalSymmetry") /\ ret.mesh1 # ret.mesh2
    /\ heap[ret.mesh1].translation = heap[ret.mesh2].translation
    /\ nb_submeshes(heap, ret.mesh1) = 3 /\ nb_submeshes(heap, ret.mesh2) = 3
    /\ Len(BaseEvaluations) = 3

\* C9. Mirror case: for two Reflection Symmetries of equal planes, assemble
\* makes exactly two recursive calls, on (mesh1.submeshes[0],
\* mesh2.submeshes[0]) and then on (mesh1.submeshes[0], mesh2.submeshes[1]),
\* passes mesh1.submeshes[1] to no call, and returns BlockToeplitz([S_a, S_b])
\* and BlockToeplitz([V_a, V_b]).
C9_MirrorCase ==
    (BothOfKind("ReflectionSymmetry") /\ heap[ret.mesh1].plane = heap[ret.mesh2].plane) =>
        LET first == heap[ret.mesh1].submeshes[1]
            subs == heap[ret.mesh2].submeshes
            kth(k) == build_matrices_with_symmetries(heap, ret.solver, first, subs[k],
                                                     ret.args, ret.depth + 1)
        IN  /\ ret.log[1].case = "mirror"
            /\ Len(RecursiveCalls) = 2
            /\ \A k \in 1..2 :
                  /\ RecursiveCalls[k].mesh1 = first
                  /\ RecursiveCalls[k].mesh2 = subs[k]
            /\ \A k \in DOMAIN ret.log :
                  k > 1 => /\ ret.log[k].mesh1 # heap[ret.mesh1].submeshes[2]
                           /\ ret.log[k].mesh1 \in Reach(heap, first)
            /\ ret.S = BlockToeplitzMatrix(<<kth(1).S, kth(2).S>>)
            /\ ret.V = BlockToeplitzMatrix(<<kth(1).V, kth(2).V>>)
            /\ (AllPlain(heap, ret.mesh1) /\ AllPlain(heap, ret.mesh2)) =>
                  /\ Len(ret.log) = 3
                  /\ ret.S.blocks[2] =
                       build_matrices(heap, ret.solver, first, subs[2], ret.args).S
                  /\ ret.S.blocks[1] =
                       build_matrices(heap, ret.solver, first, subs[1], ret.args).S

\* Two distinct Reflection Symmetries of one plane.
C9_Witness ==
    /\ BothOfKind("ReflectionSymmetry") /\ ret.mesh1 # ret.mesh2
    /\ heap[ret.mesh1].plane = heap[ret.mesh2].plane
    /\ Len(ret.log) = 3
    /\ ret.S.blocks[1] # ret.S.blocks[2]

\* The depth of a symmetry tree: 0 for a plain mesh.
RECURSIVE TreeDepth(_, _)
TreeDepth(h, id) ==
    IF h[id].submeshes = <<>> THEN 0
    ELSE LET d == {TreeDepth(h, h[id].submeshes[k]) : k \in DOMAIN h[id].submeshes}
         IN  1 + CHOOSE x \in d : \A y \in d : y <= x

\* The call that made call k of the log: the last one before it one level up.
Caller(log, k) ==
    CHOOSE j \in 1..(k - 1) :
        /\ log[j].depth = log[k].depth - 1
        /\ \A i \in (j + 1)..(k - 1) : log[i].depth >= log[k].depth

IsSubmesh(h, sub, id) == \E k \in DOMAIN h[id].submeshes : h[id].submeshes[k] = sub

\* C10. Termination: assemble returns for every pair of symmetry trees; every
\* recursive call receives a sub-mesh of mesh1 and a sub-mesh of mesh2, so the
\* recursion is never deeper than the shallower of the two trees plus one;
\* _rec_depth grows by exactly 1 per level and has no say in the case taken.
C10_Termination ==
    Assembled =>
        LET log == ret.log
            other == build_matrices_with_symmetries(heap, ret.solver, ret.mesh1,
                         ret.mesh2, ret.args, ret.depth + 1)
        IN  /\ ret.err = "" /\ Len(log) >= 1
            /\ log[1].depth = ret.depth
            /\ log[Len(log)].case = "base"
            /\ \A k \in 2..Len(log) :
                  /\ log[k].depth > ret.depth
                  /\ log[k].depth <= log[k - 1].depth + 1
                  /\ log[Caller(log, k)].case # "base"
                  /\ IsSubmesh(heap, log[k].mesh1, log[Caller(log, k)].mesh1)
                  /\ IsSubmesh(heap, log[k].mesh2, log[Caller(log, k)].mesh2)
            /\ \A k \in 1..Len(log) :
                  /\ log[k].depth - ret.depth + 1
                       <= Min(TreeDepth(heap, ret.mesh1), TreeDepth(heap, ret.mesh2)) + 1
                  /\ log[k].depth - ret.depth
                       = TreeDepth(heap, ret.mesh1) - TreeDepth(heap, log[k].mesh1)
            /\ Len(other.log) = Len(log)
            /\ \A k \in 1..Len(log) :
                  /\ other.log[k].case = log[k].case
                  /\ other.log[k].mesh1 = log[k].mesh1
                  /\ other.log[k].mesh2 = log[k].mesh2
                  /\ other.log[k].depth = log[k].depth + 1
            /\ other.S = ret.S /\ other.V = ret.V
            /\ WellFounded

\* A recursion two levels deep, started with _rec_depth = 2.
C10_Witness ==
    /\ Assembled /\ ret.depth = 2
    /\ \E k \in DOMAIN ret.log : ret.log[k].depth = ret.depth + 2
    /\ TreeDepth(heap, ret.mesh1) = 2

====
